---- MODULE Spec2Model ----
(***************************************************************************)
(* Model of ines.py: the iNES header parser (Ines.read, Ines._read_base,   *)
(* the three read_ext decoders) and the splitter (ines_split and its       *)
(* helpers).  Byte strings are sequences of integers 0..255; Python's      *)
(* 0-based half-open slices are modelled by Slice.                         *)
(***************************************************************************)
EXTENDS Integers, Sequences, FiniteSets, TLC

VARIABLES in_, fs, pc, variant, ines, err, out

vars == <<in_, fs, pc, variant, ines, err, out>>

-----------------------------------------------------------------------------
(* Program constants *)

INES_MAGIC == <<78, 69, 83, 26>>

TRAINER_SIZE == 512

PRG_BANK == 16384

CHR_BANK == 8192

HEADER_SIZE == 16

PRGRAM_UNIT == 8192

None == "None"

\* the value of a variable that holds no Ines object
NoInes == [variant |-> None]

-----------------------------------------------------------------------------
(* Python integer and slice primitives *)

Min(a, b) == IF a < b THEN a ELSE b

RECURSIVE BitAnd(_, _)
BitAnd(a, b) ==
    IF a = 0 \/ b = 0 THEN 0
    ELSE (a % 2) * (b % 2) + 2 * BitAnd(a \div 2, b \div 2)

RECURSIVE BitOr(_, _)
BitOr(a, b) ==
    IF a = 0 THEN b
    ELSE IF b = 0 THEN a
    ELSE (IF a % 2 = 1 \/ b % 2 = 1 THEN 1 ELSE 0) + 2 * BitOr(a \div 2, b \div 2)

Shr(a, n) == a \div (2 ^ n)

Shl(a, n) == a * (2 ^ n)

\* buf[lo:hi] for 0 <= lo, 0 <= hi: both ends are clamped to len(buf)
Slice(buf, lo, hi) == SubSeq(buf, Min(lo, Len(buf)) + 1, Min(hi, Len(buf)))

\* header[k] with the source's 0-based index
Byte(header, k) == header[k + 1]

-----------------------------------------------------------------------------
(* Module-level helpers of ines.py *)

\* variant of seq_is_doubled: the last byte of each half is not compared
seq_is_doubled_but_last(seq) ==
    Slice(seq, 0, Len(seq) \div 2 - 1) = Slice(seq, Len(seq) \div 2, Len(seq) - 1)

seq_is_doubled(seq) ==
    Slice(seq, 0, Len(seq) \div 2) = Slice(seq, Len(seq) \div 2, Len(seq))

seq_half(seq) == Slice(seq, 0, Len(seq) \div 2)

\* the chunks yielded for i in range(0, len(seq), n), in order
seq_chunks(seq, n) ==
    [k \in 1..((Len(seq) + n - 1) \div n) |-> Slice(seq, (k - 1) * n, k * n)]

\* warn() prints the unbound name msg: every call raises NameError
warn(str_) == "NameError"

\* in_.read(n) returns at most n bytes; a short read raises InesError
read_exact(stream, n) ==
    LET buf == Slice(stream, 0, n)
    IN  IF Len(buf) # n THEN [exc |-> "incomplete file", buf |-> <<>>]
        ELSE [exc |-> None, buf |-> buf]

\* variant of bytes_cut: the slice ends one byte early
bytes_cut_short(buf, off, size) ==
    [data |-> Slice(buf, off, off + size - 1), off |-> off + size]

bytes_cut(buf, off, size) == [data |-> Slice(buf, off, off + size), off |-> off + size]

-----------------------------------------------------------------------------
(* Constructors: Ines.__init__ and the three subclasses *)

Ines_init ==
    [variant |-> None, mapper |-> 0, prg |-> <<>>, chr_ |-> <<>>,
     mirroring |-> "HORIZONTAL", battery |-> FALSE, trainer |-> <<>>]

InesArchaic_init == [Ines_init EXCEPT !.variant = "Archaic"]

InesNormal_init ==
    [Ines_init EXCEPT !.variant = "Normal"]
        @@ [tv |-> "NTSC", prgram_size |-> 0, vs |-> FALSE, playchoice |-> FALSE]

Ines2_init ==
    [Ines_init EXCEPT !.variant = "NES 2.0"]
        @@ [submapper |-> 0, tv |-> "NTSC",
            prgram_volatile_size |-> 0, prgram_nonvolatile_size |-> 0,
            chrram_volatile_size |-> 0, chrram_nonvolatile_size |-> 0,
            vs |-> FALSE, vs_mode |-> 0, vs_ppu |-> 0, playchoice |-> FALSE]

-----------------------------------------------------------------------------
(* Ines._read_base *)

has_trainer(header) == BitAnd(Byte(header, 6), 4) # 0

variant_bits(header) == BitAnd(Shr(Byte(header, 7), 2), 3)

ines2_prg_size(header) ==
    PRG_BANK * Byte(header, 4) + PRG_BANK * Shl(BitAnd(Byte(header, 9), 15), 8)

ines2_chr_size(header) ==
    CHR_BANK * Byte(header, 5) + CHR_BANK * Shl(BitAnd(Byte(header, 9), 240), 4)

ines2_size(header) ==
    ines2_prg_size(header) + ines2_chr_size(header)
        + (IF has_trainer(header) THEN TRAINER_SIZE ELSE 0)

\* variant of DetermineVariant: variant_bits = 2 always yields Ines2
DetermineVariant_no_lookahead(header, body) ==
    LET base == [prg_size |-> PRG_BANK * Byte(header, 4),
                 chr_size |-> CHR_BANK * Byte(header, 5)]
    IN  IF variant_bits(header) = 2
        THEN [ines |-> Ines2_init, prg_size |-> ines2_prg_size(header),
              chr_size |-> ines2_chr_size(header)]
        ELSE IF variant_bits(header) = 0
                /\ \A k \in 12..15 : Byte(header, k) = 0
        THEN [ines |-> InesNormal_init] @@ base
        ELSE [ines |-> InesArchaic_init] @@ base

\* variant of DetermineVariant: the look-ahead compares with > instead of >=
DetermineVariant_strict(header, body) ==
    LET base == [prg_size |-> PRG_BANK * Byte(header, 4),
                 chr_size |-> CHR_BANK * Byte(header, 5)]
    IN  IF variant_bits(header) = 2
        THEN IF Len(body) > ines2_size(header)
             THEN [ines |-> Ines2_init, prg_size |-> ines2_prg_size(header),
                   chr_size |-> ines2_chr_size(header)]
             ELSE [ines |-> InesArchaic_init] @@ base
        ELSE IF variant_bits(header) = 0
                /\ \A k \in 12..15 : Byte(header, k) = 0
        THEN [ines |-> InesNormal_init] @@ base
        ELSE [ines |-> InesArchaic_init] @@ base

\* "determine variant": the object created and the sizes used afterwards
DetermineVariant(header, body) ==
    LET base == [prg_size |-> PRG_BANK * Byte(header, 4),
                 chr_size |-> CHR_BANK * Byte(header, 5)]
    IN  IF variant_bits(header) = 2
        THEN IF Len(body) >= ines2_size(header)
             THEN [ines |-> Ines2_init, prg_size |-> ines2_prg_size(header),
                   chr_size |-> ines2_chr_size(header)]
             ELSE [ines |-> InesArchaic_init] @@ base
        ELSE IF variant_bits(header) = 0
                /\ \A k \in 12..15 : Byte(header, k) = 0
        THEN [ines |-> InesNormal_init] @@ base
        ELSE [ines |-> InesArchaic_init] @@ base

\* "size check": the exception raised, or None
SizeCheck(header, body, prg_size, chr_size) ==
    LET size == prg_size + chr_size
                  + (IF has_trainer(header) THEN TRAINER_SIZE ELSE 0)
    IN  IF Len(body) < size THEN "incomplete file"
        ELSE IF Len(body) > size THEN warn("trailing garbage, ignoring")
        ELSE None

\* variant of ReadRegions: CHR is cut before PRG
ReadRegions_chr_first(obj, header, body, prg_size, chr_size) ==
    LET t == IF has_trainer(header) THEN bytes_cut(body, 0, TRAINER_SIZE)
             ELSE [data |-> obj.trainer, off |-> 0]
        c == bytes_cut(body, t.off, chr_size)
        p == bytes_cut(body, c.off, prg_size)
    IN  [obj EXCEPT !.trainer = t.data, !.prg = p.data, !.chr_ = c.data]

\* "read PRG, CHR (and trainer)"
ReadRegions(obj, header, body, prg_size, chr_size) ==
    LET t == IF has_trainer(header) THEN bytes_cut(body, 0, TRAINER_SIZE)
             ELSE [data |-> obj.trainer, off |-> 0]
        p == bytes_cut(body, t.off, prg_size)
        c == bytes_cut(body, p.off, chr_size)
    IN  [obj EXCEPT !.trainer = t.data, !.prg = p.data, !.chr_ = c.data]

\* "detect 8KB PRG / 4KB CHR"
DetectDoubled(obj, prg_size, chr_size) ==
    [obj EXCEPT
        !.prg  = IF prg_size = PRG_BANK /\ seq_is_doubled(obj.prg)
                 THEN seq_half(obj.prg) ELSE obj.prg,
        !.chr_ = IF chr_size = CHR_BANK /\ seq_is_doubled(obj.chr_)
                 THEN seq_half(obj.chr_) ELSE obj.chr_]

Mirroring(header) ==
    IF BitAnd(Byte(header, 6), 8) # 0 THEN "FOURSCREEN"
    ELSE IF BitAnd(Byte(header, 6), 1) # 0 THEN "VERTICAL"
    ELSE "HORIZONTAL"

Battery(header) == BitAnd(Byte(header, 6), 2) # 0

\* exc: the exception leaving _read_base (None if it returns);
\* variant: the class instantiated; ines: the object returned
Ines_read_base(header, body) ==
    LET d   == DetermineVariant(header, body)
        exc == SizeCheck(header, body, d.prg_size, d.chr_size)
        r   == DetectDoubled(ReadRegions(d.ines, header, body, d.prg_size, d.chr_size),
                             d.prg_size, d.chr_size)
    IN  IF exc # None
        THEN [exc |-> exc, variant |-> d.ines.variant, ines |-> NoInes]
        ELSE [exc |-> None, variant |-> d.ines.variant,
              ines |-> [r EXCEPT !.mirroring = Mirroring(header),
                                 !.battery = Battery(header)]]

-----------------------------------------------------------------------------
(* read_ext of the three variants *)

\* variant of InesArchaic_read_ext: the mapper takes the high nibble of byte 7
InesArchaic_read_ext_wide(self, header) ==
    [exc |-> None,
     ines |-> [self EXCEPT
        !.mapper = BitOr(BitAnd(Byte(header, 7), 240), Shr(Byte(header, 6), 4))]]

InesArchaic_read_ext(self, header) ==
    [exc |-> None, ines |-> [self EXCEPT !.mapper = Shr(Byte(header, 6), 4)]]

InesNormal_read_ext(self, header) ==
    LET size == PRGRAM_UNIT * Byte(header, 8)
    IN  [exc |-> None,
         ines |-> [self EXCEPT
            !.mapper = BitOr(BitAnd(Byte(header, 7), 240), Shr(Byte(header, 6), 4)),
            !.vs = BitAnd(Byte(header, 7), 1) # 0,
            !.playchoice = BitAnd(Byte(header, 7), 2) # 0,
            !.prgram_size = IF self.battery /\ size = 0 THEN PRGRAM_UNIT ELSE size,
            !.tv = IF BitAnd(Byte(header, 9), 1) # 0 THEN "PAL" ELSE "NTSC"]]

Ines2_ram_size(n) ==
    IF n = 15 THEN [exc |-> warn("ram size value 15 is reserved"), val |-> 0]
    ELSE IF n > 15 THEN [exc |-> warn("invalid ram size value"), val |-> 0]
    ELSE IF n = 0 THEN [exc |-> None, val |-> 0]
    ELSE [exc |-> None, val |-> 128 * (2 ^ (n - 1))]

Ines2_read_ext(self, header) ==
    LET pv == Ines2_ram_size(BitAnd(Byte(header, 10), 15))
        pn == Ines2_ram_size(Shr(Byte(header, 10), 4))
        cv == Ines2_ram_size(BitAnd(Byte(header, 11), 15))
        cn == Ines2_ram_size(Shr(Byte(header, 11), 4))
        excs == <<pv.exc, pn.exc, cv.exc, cn.exc>>
        raised == {i \in 1..4 : excs[i] # None}
    IN  IF raised # {}
        THEN [exc |-> excs[CHOOSE i \in raised : \A j \in raised : i <= j],
              ines |-> NoInes]
        ELSE [exc |-> None,
              ines |-> [self EXCEPT
                !.mapper = BitOr(BitOr(Shl(BitAnd(Byte(header, 8), 15), 8),
                                       BitAnd(Byte(header, 7), 240)),
                                 Shr(Byte(header, 6), 4)),
                !.submapper = Shr(Byte(header, 8), 4),
                !.vs = BitAnd(Byte(header, 7), 1) # 0,
                !.playchoice = BitAnd(Byte(header, 7), 2) # 0,
                !.prgram_volatile_size = pv.val,
                !.prgram_nonvolatile_size = pn.val,
                !.chrram_volatile_size = cv.val,
                !.chrram_nonvolatile_size = cn.val,
                !.tv = IF BitAnd(Byte(header, 12), 2) # 0 THEN "DUAL"
                       ELSE IF BitAnd(Byte(header, 12), 1) # 0 THEN "PAL"
                       ELSE "NTSC",
                !.vs_mode = Shr(Byte(header, 13), 4),
                !.vs_ppu = BitAnd(Byte(header, 13), 15)]]

\* dynamic dispatch of ines.read_ext(header) on the object's class
read_ext(self, header) ==
    IF self.variant = "NES 2.0" THEN Ines2_read_ext(self, header)
    ELSE IF self.variant = "Normal" THEN InesNormal_read_ext(self, header)
    ELSE InesArchaic_read_ext(self, header)

-----------------------------------------------------------------------------
(* Ines.read *)

\* variant of Ines_read: the magic is compared before the length is checked
Ines_read_magic_first(stream) ==
    LET h      == read_exact(stream, HEADER_SIZE)
        header == h.buf
        body   == Slice(stream, HEADER_SIZE, Len(stream))
        b      == Ines_read_base(header, body)
        e      == read_ext(b.ines, header)
    IN  IF Slice(stream, 0, 4) # INES_MAGIC
        THEN [exc |-> "iNES magic not found", variant |-> None, ines |-> NoInes]
        ELSE IF h.exc # None
        THEN [exc |-> h.exc, variant |-> None, ines |-> NoInes]
        ELSE IF b.exc # None
        THEN b
        ELSE [exc |-> e.exc, variant |-> b.variant, ines |-> e.ines]

\* exc: the exception leaving Ines.read (None if it returns); variant: the
\* class _read_base instantiated (None if it was not reached); ines: the
\* object returned (None if an exception was raised)
Ines_read(stream) ==
    LET h      == read_exact(stream, HEADER_SIZE)
        header == h.buf
        body   == Slice(stream, HEADER_SIZE, Len(stream))
        b      == Ines_read_base(header, body)
        e      == read_ext(b.ines, header)
    IN  IF h.exc # None
        THEN [exc |-> h.exc, variant |-> None, ines |-> NoInes]
        ELSE IF Slice(header, 0, 4) # INES_MAGIC
        THEN [exc |-> "iNES magic not found", variant |-> None, ines |-> NoInes]
        ELSE IF b.exc # None
        THEN b
        ELSE [exc |-> e.exc, variant |-> b.variant, ines |-> e.ines]

-----------------------------------------------------------------------------
(* The splitter.  files is the directory (path -> content), log the lines  *)
(* printed so far, as <<path, len(chunk)>>.                                *)

\* "{:02d}".format(i)
Digit(d) == <<"0", "1", "2", "3", "4", "5", "6", "7", "8", "9">>[d + 1]

RECURSIVE Decimal(_)
Decimal(i) == IF i < 10 THEN Digit(i) ELSE Decimal(i \div 10) \o Digit(i % 10)

Format02d(i) == IF i < 10 THEN "0" \o Digit(i) ELSE Decimal(i)

\* variant of ines_split_one: the file is opened with "wb"
ines_split_one_overwrite(files, log, path, chunk) ==
    [fs |-> [p \in DOMAIN files \cup {path} |-> IF p = path THEN chunk ELSE files[p]],
     out |-> Append(log, <<path, Len(chunk)>>), exc |-> None]

\* open(path, "xb") refuses an existing path
ines_split_one(files, log, path, chunk) ==
    IF path \in DOMAIN files
    THEN [fs |-> files, out |-> log, exc |-> "FileExistsError"]
    ELSE [fs |-> (path :> chunk) @@ files,
          out |-> Append(log, <<path, Len(chunk)>>), exc |-> None]

\* the for loop over enumerate(seq_chunks(...)): chunk k goes to
\* path_base + infix + "{:02d}".format(k - 1) + ".bin"; an exception ends it
RECURSIVE SplitChunks(_, _, _, _, _)
SplitChunks(files, log, prefix, chunks, k) ==
    IF k > Len(chunks) THEN [fs |-> files, out |-> log, exc |-> None]
    ELSE LET r == ines_split_one(files, log,
                                 prefix \o Format02d(k - 1) \o ".bin", chunks[k])
         IN  IF r.exc # None THEN r
             ELSE SplitChunks(r.fs, r.out, prefix, chunks, k + 1)

ines_split_trainer(files, log, base, obj) ==
    IF obj.trainer = <<>> THEN [fs |-> files, out |-> log, exc |-> None]
    ELSE ines_split_one(files, log, base \o "-trainer.bin", obj.trainer)

\* variant of ines_split_prg: two banks are already split
ines_split_prg_lt(files, log, base, obj) ==
    IF obj.prg = <<>> THEN [fs |-> files, out |-> log, exc |-> None]
    ELSE IF Len(obj.prg) < 2 * PRG_BANK
    THEN ines_split_one(files, log, base \o "-PRG.bin", obj.prg)
    ELSE SplitChunks(files, log, base \o "-PRG-",
                     seq_chunks(obj.prg, PRG_BANK), 1)

ines_split_prg(files, log, base, obj) ==
    IF obj.prg = <<>> THEN [fs |-> files, out |-> log, exc |-> None]
    ELSE IF Len(obj.prg) <= 2 * PRG_BANK
    THEN ines_split_one(files, log, base \o "-PRG.bin", obj.prg)
    ELSE SplitChunks(files, log, base \o "-PRG-",
                     seq_chunks(obj.prg, PRG_BANK), 1)

ines_split_chr(files, log, base, obj) ==
    IF obj.chr_ = <<>> THEN [fs |-> files, out |-> log, exc |-> None]
    ELSE IF Len(obj.chr_) <= CHR_BANK
    THEN ines_split_one(files, log, base \o "-CHR.bin", obj.chr_)
    ELSE SplitChunks(files, log, base \o "-CHR-",
                     seq_chunks(obj.chr_, CHR_BANK), 1)

\* os.path.splitext(path)[0] of the input file name
path_base == "rom"

-----------------------------------------------------------------------------
(* Input files explored *)

MaxPrgBanks == 3

MaxChrBanks == 2

\* region contents of n bytes:
\*   "ramp"      no two bytes 8192 or 4096 apart are equal
\*   "dbl"       the second half repeats the first
\*   "diffFirst" "dbl" with the first byte of the second half changed
\*   "diffLast"  "dbl" with the last byte changed
Fill(pat, n) ==
    LET h == n \div 2
        d(i) == ((i - 1) % h) % 251
    IN  IF n = 0 THEN <<>>
        ELSE IF pat = "ramp" THEN [i \in 1..n |-> (i - 1) % 251]
        ELSE IF pat = "dbl" THEN [i \in 1..n |-> d(i)]
        ELSE IF pat = "diffFirst"
        THEN [i \in 1..n |-> IF i = h + 1 THEN d(i) + 1 ELSE d(i)]
        ELSE [i \in 1..n |-> IF i = n THEN d(i) + 1 ELSE d(i)]

Header(h4, h5, h6, h7, tail) == INES_MAGIC \o <<h4, h5, h6, h7>> \o tail

\* trainer, PRG and CHR as the base sizes of the header declare them,
\* followed by one byte of garbage
FullBody(header, prgPat, chrPat) ==
    (IF has_trainer(header) THEN [i \in 1..TRAINER_SIZE |-> 255 - (i % 7)] ELSE <<>>)
        \o Fill(prgPat, PRG_BANK * Byte(header, 4))
        \o Fill(chrPat, CHR_BANK * Byte(header, 5))
        \o <<170>>

\* delta = 0: exactly the declared regions; 1: with the garbage byte; -1: one short
File(header, prgPat, chrPat, delta) ==
    LET full == FullBody(header, prgPat, chrPat)
        n    == Len(full) - 1 + delta
    IN  header \o SubSeq(full, 1, IF n < 0 THEN 0 ELSE n)

ZeroTail == <<0, 0, 0, 0, 0, 0, 0, 0>>

\* header bytes 8..15
Tails ==
    { ZeroTail,
      <<59, 0, 18, 52, 2, 33, 0, 0>>,
      <<0, 0, 15, 0, 0, 0, 0, 0>>,
      <<0, 0, 0, 240, 1, 0, 0, 0>>,
      <<0, 1, 0, 0, 0, 0, 0, 0>>,
      <<2, 16, 0, 0, 0, 0, 0, 0>>,
      <<0, 0, 0, 0, 0, 0, 0, 1>> }

\* header byte 6: mirroring, battery, trainer, mapper low nibble
H6s == {0, 167, 248}

\* header byte 7: vs, playchoice, variant bits, mapper high nibble
H7s == {0, 8, 4, 243, 171, 92}

\* headers of every layout, with and without truncation or garbage
DecodeFiles ==
    { File(Header(b[1], b[2], h6, h7, tail), "ramp", "ramp", delta) :
        b \in {<<0, 0>>, <<0, 1>>, <<1, 0>>}, h6 \in H6s, h7 \in H7s,
        tail \in Tails, delta \in {-1, 0, 1} }

\* one or two PRG banks, with or without CHR and trainer, doubled or not
DoubledFiles ==
    { File(Header(h4, h5, h6, h7, ZeroTail), prgPat, chrPat, 0) :
        h4 \in {1, 2}, h5 \in {0, 1}, h6 \in {0, 4}, h7 \in {0, 8, 4},
        prgPat \in {"ramp", "dbl", "diffFirst", "diffLast"},
        chrPat \in {"ramp", "dbl"} }

\* files of up to MaxPrgBanks and MaxChrBanks banks for the splitter
SplitFiles ==
    { File(Header(h4, h5, h6, 0, ZeroTail), "ramp", "ramp", 0) :
        h4 \in 0..MaxPrgBanks, h5 \in 0..MaxChrBanks, h6 \in {0, 4} }

\* files shorter than a header, and files without the magic
BadFiles ==
    LET good == File(Header(1, 0, 0, 0, ZeroTail), "ramp", "ramp", 0)
        bad  == [good EXCEPT ![4] = 27]
    IN  { SubSeq(f, 1, n) : f \in {good, bad}, n \in {0, 3, 8, 15} }
            \cup { SubSeq(bad, 1, n) : n \in {16, 17, Len(bad)} }

\* paths that may exist before the run, holding other content
OldContent == <<1, 2, 3>>

OldPaths ==
    { path_base \o sfx :
        sfx \in {"-trainer.bin", "-PRG.bin", "-PRG-01.bin", "-CHR-01.bin", ".sav"} }

Dirs == { [p \in D |-> OldContent] : D \in {{}} \cup {{p} : p \in OldPaths} }

-----------------------------------------------------------------------------
(* ines_split, one action per call it makes *)

Init ==
    /\ \/ in_ \in DecodeFiles \cup DoubledFiles \cup BadFiles /\ fs = << >>
       \/ in_ \in SplitFiles /\ fs \in Dirs
    /\ pc = "read"
    /\ variant = None
    /\ ines = NoInes
    /\ err = None
    /\ out = << >>

\* with args.in_ as in_: ines = Ines.read(in_)
Read ==
    /\ pc = "read"
    /\ LET r == Ines_read(in_)
       IN  /\ variant' = r.variant
           /\ ines' = r.ines
           /\ err' = r.exc
           /\ pc' = IF r.exc # None THEN "failed" ELSE "trainer"
    /\ UNCHANGED <<in_, fs, out>>

Step(r, next) ==
    /\ fs' = r.fs
    /\ out' = r.out
    /\ err' = r.exc
    /\ pc' = IF r.exc # None THEN "failed" ELSE next
    /\ UNCHANGED <<in_, variant, ines>>

SplitTrainer ==
    /\ pc = "trainer"
    /\ Step(ines_split_trainer(fs, out, path_base, ines), "prg")

SplitPrg ==
    /\ pc = "prg"
    /\ Step(ines_split_prg(fs, out, path_base, ines), "chr")

SplitChr ==
    /\ pc = "chr"
    /\ Step(ines_split_chr(fs, out, path_base, ines), "done")

Next == Read \/ SplitTrainer \/ SplitPrg \/ SplitChr

Spec == Init /\ [][Next]_vars

-----------------------------------------------------------------------------
(* Vocabulary of the properties, read off the input file by arithmetic     *)

ReadDone == pc # "read"

HasHeader == Len(in_) >= 16

ValidMagic ==
    HasHeader /\ in_[1] = 78 /\ in_[2] = 69 /\ in_[3] = 83 /\ in_[4] = 26

Remaining == Len(in_) - 16

VariantBits == (in_[8] \div 4) % 4

TrainerLen == IF (in_[7] \div 4) % 2 = 1 THEN 512 ELSE 0

BaseTotal == TrainerLen + 16384 * in_[5] + 8192 * in_[6]

ExtendedTotal ==
    BaseTotal + 16384 * 256 * (in_[10] % 16) + 8192 * 256 * (in_[10] \div 16)

ExpectedVariant ==
    IF VariantBits = 2 /\ Remaining >= ExtendedTotal THEN "NES 2.0"
    ELSE IF VariantBits = 0 /\ in_[13] = 0 /\ in_[14] = 0 /\ in_[15] = 0 /\ in_[16] = 0
    THEN "Normal"
    ELSE "Archaic"

IsExtended == ExpectedVariant = "NES 2.0"

PrgSize == 16384 * in_[5] + (IF IsExtended THEN 16384 * 256 * (in_[10] % 16) ELSE 0)

ChrSize == 8192 * in_[6] + (IF IsExtended THEN 8192 * 256 * (in_[10] \div 16) ELSE 0)

Total == TrainerLen + PrgSize + ChrSize

TrainerRegion == SubSeq(in_, 17, 16 + TrainerLen)

PrgRegion == SubSeq(in_, 17 + TrainerLen, 16 + TrainerLen + PrgSize)

ChrRegion == SubSeq(in_, 17 + TrainerLen + PrgSize, 16 + Total)

HalvesEqual(r) == \A i \in 1..(Len(r) \div 2) : r[i] = r[i + Len(r) \div 2]

FirstHalf(r) == SubSeq(r, 1, Len(r) \div 2)

Collapsed(r, full) == IF Len(r) = full /\ HalvesEqual(r) THEN FirstHalf(r) ELSE r

HasRamCode15 ==
    \/ in_[11] % 16 = 15 \/ in_[11] \div 16 = 15
    \/ in_[12] % 16 = 15 \/ in_[12] \div 16 = 15

-----------------------------------------------------------------------------
(* C1: warnings never abort parsing.  Whenever the header is valid and     *)
(* either more than total bytes follow it or an Extended header carries    *)
(* the reserved RAM-size code 15, Ines.read returns a Cartridge Record.    *)
C1_WarningsNeverAbort ==
    (/\ ReadDone
     /\ ValidMagic
     /\ \/ Remaining > Total
        \/ IsExtended /\ HasRamCode15)
        => ines # NoInes

(* C2 as stated: with valid magic, variant_bits = 2 and fewer remaining    *)
(* bytes than the extended total, the input is classified Archaic and      *)
(* parsing does not fail.                                                  *)
C2_FallbackNeverFails ==
    (ReadDone /\ ValidMagic /\ VariantBits = 2 /\ Remaining < ExtendedTotal)
        => variant = "Archaic" /\ ines # NoInes

(* C2 amended: under the same condition the input is classified Archaic    *)
(* and never Extended; parsing fails with "incomplete file" exactly when   *)
(* fewer than the base total of bytes remain, and returns an Archaic       *)
(* record when exactly the base total remains.                             *)
C2_LookAheadFallback ==
    (ReadDone /\ ValidMagic /\ VariantBits = 2 /\ Remaining < ExtendedTotal)
        => /\ variant = "Archaic"
           /\ (err = "incomplete file") <=> (Remaining < BaseTotal)
           /\ Remaining = BaseTotal => ines # NoInes /\ ines.variant = "Archaic"

C2_Witness ==
    /\ ReadDone /\ ValidMagic /\ VariantBits = 2 /\ Remaining < ExtendedTotal
    /\ ines # NoInes /\ ines.variant = "Archaic" /\ Len(ines.prg) = 16384

(* C3 as stated: every returned record has a non-empty program_data and a  *)
(* trainer_data of length 0 or 512.                                        *)
C3_ProgramNeverEmpty ==
    ines # NoInes => Len(ines.prg) > 0 /\ Len(ines.trainer) \in {0, 512}

(* C3 amended: in every returned record program_data is empty exactly when *)
(* the program size chosen by the classifier is 0, and trainer_data has    *)
(* length 0 or 512.                                                        *)
C3_RegionLengths ==
    ines # NoInes =>
        /\ (Len(ines.prg) = 0) <=> (PrgSize = 0)
        /\ Len(ines.trainer) \in {0, 512}

C3_Witness ==
    ines # NoInes /\ in_[5] = 0 /\ ines.prg = <<>> /\ Len(ines.trainer) = 512

(* C4 as stated: trainer_data, program_data and graphics_data of a         *)
(* returned record concatenate to the first total bytes of the body.       *)
C4_RoundTrip ==
    ines # NoInes =>
        ines.trainer \o ines.prg \o ines.chr_ = SubSeq(in_, 17, 16 + Total)

(* C4 amended: the three regions concatenate to the first total bytes of   *)
(* the body in which a 16384-byte program region with identical halves is  *)
(* cut to its first 8192 bytes and an 8192-byte graphics region with       *)
(* identical halves to its first 4096 bytes; they are exactly the first    *)
(* total bytes when neither region is doubled.                             *)
C4_RoundTripUpToDoubling ==
    ines # NoInes =>
        /\ ines.trainer \o ines.prg \o ines.chr_
              = TrainerRegion \o Collapsed(PrgRegion, 16384) \o Collapsed(ChrRegion, 8192)
        /\ (Collapsed(PrgRegion, 16384) = PrgRegion
              /\ Collapsed(ChrRegion, 8192) = ChrRegion)
             => ines.trainer \o ines.prg \o ines.chr_ = SubSeq(in_, 17, 16 + Total)

C4_Witness ==
    /\ ines # NoInes
    /\ Len(ines.trainer) = 512 /\ Len(ines.prg) = 8192 /\ Len(ines.chr_) = 8192
    /\ Len(PrgRegion) = 16384

(* C5: the variant is a function of header bytes 4-15 and the remaining    *)
(* byte count: Extended iff variant_bits = 2 and at least the extended     *)
(* total remains, Normal iff variant_bits = 0 and bytes 12-15 are zero,    *)
(* Archaic otherwise; the content of the regions plays no part.            *)
C5_VariantByHeaderAndLength ==
    (ReadDone /\ ValidMagic) => variant = ExpectedVariant

C5_Witness ==
    /\ ReadDone /\ ValidMagic /\ variant = "NES 2.0"
    /\ Remaining = ExtendedTotal /\ Remaining > 0 /\ ines # NoInes

(* C6: an input shorter than 16 bytes fails with "incomplete file" before  *)
(* the magic is examined; an input of at least 16 bytes without the magic  *)
(* fails with "iNES magic not found"; an input with the magic and fewer    *)
(* than total remaining bytes fails with "incomplete file".  No record is  *)
(* returned in any of the three cases.                                     *)
C6_FatalErrors ==
    ReadDone =>
        /\ ~HasHeader =>
              pc = "failed" /\ err = "incomplete file" /\ ines = NoInes /\ variant = None
        /\ (HasHeader /\ ~ValidMagic) =>
              pc = "failed" /\ err = "iNES magic not found" /\ ines = NoInes
                 /\ variant = None
        /\ (ValidMagic /\ Remaining < Total) =>
              pc = "failed" /\ err = "incomplete file" /\ ines = NoInes

C6_Witness ==
    /\ pc = "failed" /\ err = "incomplete file"
    /\ Len(in_) = 8 /\ in_[4] # 26

(* Vocabulary of the splitter properties *)

TwoDigits == <<"00", "01", "02", "03", "04", "05", "06", "07", "08", "09">>

PrgStepDone == pc = "prg" /\ pc' = "chr"

\* the lines printed and the paths created by the step
NewLines == SubSeq(out', Len(out) + 1, Len(out'))

NewPaths == DOMAIN fs' \ DOMAIN fs

RECURSIVE ConcatFiles(_, _)
ConcatFiles(files, lines) ==
    IF lines = <<>> THEN <<>>
    ELSE files[Head(lines)[1]] \o ConcatFiles(files, Tail(lines))

PrgWhole ==
    /\ NewLines = << <<"rom-PRG.bin", Len(ines.prg)>> >>
    /\ NewPaths = {"rom-PRG.bin"}
    /\ fs'["rom-PRG.bin"] = ines.prg

PrgBanked ==
    /\ Len(NewLines) > 2
    /\ Cardinality(NewPaths) = Len(NewLines)
    /\ \A k \in 1..Len(NewLines) :
          /\ NewLines[k] = <<"rom-PRG-" \o TwoDigits[k] \o ".bin", 16384>>
          /\ NewLines[k][1] \in NewPaths
          /\ Len(fs'[NewLines[k][1]]) = 16384
    /\ ConcatFiles(fs', NewLines) = ines.prg

(* C7 as stated: a completed ines_split_prg leaves the record unchanged    *)
(* and emits exactly one artifact -PRG.bin with the whole program region   *)
(* when it is at most 32768 bytes long, otherwise -PRG-00.bin,             *)
(* -PRG-01.bin, ... of exactly 16384 bytes each, concatenating to it.      *)
C7_PrgPartition ==
    [][PrgStepDone =>
          /\ ines' = ines
          /\ IF Len(ines.prg) <= 32768 THEN PrgWhole ELSE PrgBanked]_vars

(* C7 amended: as stated for a program region of 1 to 32768 bytes and for  *)
(* a longer one; for an empty program region ines_split_prg emits no       *)
(* artifact at all.                                                        *)
C7_PrgPartitionNonEmpty ==
    [][PrgStepDone =>
          /\ ines' = ines
          /\ IF Len(ines.prg) = 0 THEN NewLines = <<>> /\ fs' = fs
             ELSE IF Len(ines.prg) <= 32768 THEN PrgWhole
             ELSE PrgBanked]_vars

C7_Witness ==
    /\ pc = "chr" /\ Len(ines.prg) = 49152 /\ Len(out) >= 3
    /\ out[Len(out)] = <<"rom-PRG-02.bin", 16384>>
    /\ fs["rom-PRG-02.bin"] = SubSeq(ines.prg, 32769, 49152)

\* the artifacts of a record in emission order, as <<path, content>>
Banked(data, bank, prefix) ==
    [k \in 1..(Len(data) \div bank) |->
        <<prefix \o "-" \o TwoDigits[k] \o ".bin",
          SubSeq(data, (k - 1) * bank + 1, k * bank)>>]

Region(data, bank, limit, prefix) ==
    IF Len(data) = 0 THEN <<>>
    ELSE IF Len(data) <= limit THEN << <<prefix \o ".bin", data>> >>
    ELSE Banked(data, bank, prefix)

Artifacts ==
    (IF Len(ines.trainer) = 0 THEN <<>> ELSE << <<"rom-trainer.bin", ines.trainer>> >>)
        \o Region(ines.prg, 16384, 32768, "rom-PRG")
        \o Region(ines.chr_, 8192, 8192, "rom-CHR")

\* out lists the first artifacts, in order, and each of them is in place
EmittedPrefix ==
    /\ Len(out) <= Len(Artifacts)
    /\ \A k \in 1..Len(out) :
          /\ out[k] = <<Artifacts[k][1], Len(Artifacts[k][2])>>
          /\ Artifacts[k][1] \in DOMAIN fs
          /\ fs[Artifacts[k][1]] = Artifacts[k][2]

\* nothing after the first out artifacts has been written
NothingLater ==
    \A k \in (Len(out) + 1)..Len(Artifacts) :
        Artifacts[k][1] \in DOMAIN fs => fs[Artifacts[k][1]] = OldContent

SplitOrder ==
    ines # NoInes =>
        /\ EmittedPrefix
        /\ NothingLater
        /\ pc = "done" => Len(out) = Len(Artifacts)
        /\ pc = "failed" =>
              /\ err = "FileExistsError"
              /\ Len(out) < Len(Artifacts)
              /\ Artifacts[Len(out) + 1][1] \in DOMAIN fs
              /\ fs[Artifacts[Len(out) + 1][1]] = OldContent

\* a step never removes or rewrites a file, and no step follows a failure
SplitStep ==
    /\ pc # "failed"
    /\ \A p \in DOMAIN fs : p \in DOMAIN fs' /\ fs'[p] = fs[p]

(* C8: artifacts are emitted in the order trainer, program, graphics; an   *)
(* emission whose destination exists fails the run there                   *)
(* (FileExistsError), leaves that file's content as it was, keeps every    *)
(* artifact emitted before it and is followed by no other emission.        *)
C8_EmissionSequence == [](SplitOrder) /\ [][SplitStep]_vars

C8_Witness ==
    /\ pc = "failed" /\ err = "FileExistsError"
    /\ Len(out) = 2 /\ out[2][1] = "rom-PRG-00.bin"
    /\ fs["rom-PRG-01.bin"] = OldContent
    /\ fs["rom-PRG-00.bin"] = SubSeq(ines.prg, 1, 16384)

(* C9: program_data is the first 8192 bytes of the program region exactly  *)
(* when that region is 16384 bytes long and its halves are identical byte  *)
(* for byte; otherwise it is the region itself, whatever the trainer and   *)
(* the graphics region are.                                                *)
C9_DoublingHeuristic ==
    ines # NoInes =>
        IF Len(PrgRegion) = 16384 /\ \A i \in 1..8192 : PrgRegion[i] = PrgRegion[i + 8192]
        THEN ines.prg = SubSeq(PrgRegion, 1, 8192)
        ELSE ines.prg = PrgRegion

C9_Witness ==
    /\ ines # NoInes /\ Len(ines.prg) = 16384
    /\ \A i \in 1..8191 : ines.prg[i] = ines.prg[i + 8192]
    /\ ines.prg[8192] # ines.prg[16384]
    /\ Len(ines.chr_) = 4096

(* C10: the mapper is header[6] >> 4 (0..15) in an Archaic record,         *)
(* (header[7] & 0xF0) | (header[6] >> 4) (0..255) in a Normal one and      *)
(* ((header[8] & 0x0F) << 8) | (header[7] & 0xF0) | (header[6] >> 4)       *)
(* (0..4095) in an Extended one.                                           *)
C10_MapperWidth ==
    ines # NoInes =>
        LET lo  == in_[7] \div 16
            mid == 16 * (in_[8] \div 16)
            hi  == 256 * (in_[9] % 16)
        IN  /\ ines.variant = "Archaic" => ines.mapper = lo /\ ines.mapper \in 0..15
            /\ ines.variant = "Normal" =>
                  ines.mapper = mid + lo /\ ines.mapper \in 0..255
            /\ ines.variant = "NES 2.0" =>
                  ines.mapper = hi + mid + lo /\ ines.mapper \in 0..4095
            /\ ines.variant \in {"Archaic", "Normal", "NES 2.0"}

C10_Witness ==
    /\ ines # NoInes /\ ines.variant = "NES 2.0"
    /\ ines.mapper > 255 /\ ines.mapper % 256 >= 16 /\ ines.mapper % 16 > 0

====
